---- MODULE Spec2Model ----
(***************************************************************************)
(* Model of the gcam-driver coordination engine:                           *)
(*   - gcam_driver.py: gcam_parse (builds component_list and the           *)
(*     capability table) and the __main__ block (start every component,    *)
(*     join every thread, count the failures);                             *)
(*   - components.py: ComponentBase (run, run_component_wrapper, fetch)    *)
(*     and the run_component bodies of the concrete component classes, as  *)
(*     far as they touch the capability table, other components' results,  *)
(*     their own results dictionary and their return value.                *)
(* A component is identified by its index in component_list.               *)
(***************************************************************************)
EXTENDS Integers, Sequences, FiniteSets, TLC

\* ------------------------------------------------------------------ bounds
\* the configuration files of the model: every file of at most MaxSections
\* sections (each with one of the parameter blocks of its class), and the
\* longer files listed in Pipelines
MaxSections == 2

\* ----------------------------------------------------------- class tables
Global == "GlobalParamsComponent"
Gcam == "GcamComponent"
Hydro == "HydroComponent"
HistHydro == "HistoricalHydroComponent"
Water == "WaterDisaggregationComponent"
Netcdf == "NetcdfDemoComponent"
Base == "ComponentBase"

\* the classes a section header of the configuration can name
Classes == {Global, Gcam, Hydro, HistHydro, Water, Netcdf, Base}

\* subclasses of ComponentBase that are not in components.py: CycleA and
\* CycleB fetch each other's capability, CycleC fetches CycleA's
CycleA == "CycleA"
CycleB == "CycleB"
CycleC == "CycleC"

CycleClasses == {CycleA, CycleB, CycleC}

NoCap == "<none>"

\* the capability name a class's __init__ writes into the capability table
Capability(c) ==
  CASE c = Global -> "general"
    [] c = Gcam -> "gcam-core"
    [] c = Hydro -> "gcam-hydro"
    [] c = HistHydro -> "historical-hydro"
    [] c = Water -> "water-disaggregation"
    [] c = Netcdf -> "netcdf-demo"
    [] c = CycleA -> "cycle-a"
    [] c = CycleB -> "cycle-b"
    [] c = CycleC -> "cycle-c"
    [] OTHER -> NoCap

Caps == {Capability(c) : c \in (Classes \cup CycleClasses) \ {Base}}

\* the capabilities a class's run_component looks up, in program order
Slots(c) ==
  CASE c = Hydro -> <<"historical-hydro", "general">>
    [] c = HistHydro -> <<"general">>
    [] c = Water -> <<"gcam-hydro", "general", "gcam-core">>
    [] c = Netcdf -> <<"gcam-hydro", "water-disaggregation">>
    [] c = CycleA -> <<"cycle-b">>
    [] c = CycleB -> <<"cycle-a">>
    [] c = CycleC -> <<"cycle-a">>
    [] OTHER -> <<>>

\* ------------------------------------------------------------ dictionaries
EmptyMap == [k \in {} |-> ""]

Put(m, k, v) == [x \in (DOMAIN m) \cup {k} |-> IF x = k THEN v ELSE m[x]]

PutAll(m, ks, v) == [x \in (DOMAIN m) \cup ks |-> IF x \in ks THEN v ELSE m[x]]

\* ---------------------------------------------------------------- state
VARIABLES
  cfgfile,         \* the lines of the configuration file
  lineno,          \* gcam_parse: index of the next line to read
  mainpc,          \* position of the main thread
  component_list,  \* gcam_parse: classes of the components, in section order
  cap_tbl,         \* capability name -> component index (0: not bound)
  next,            \* loop index of the main thread's current loop
  fail,            \* __main__: failure counter
  message,         \* __main__: the closing message printed ("none": not yet)
  status,          \* ComponentBase.status
  results,         \* ComponentBase.results
  params,          \* ComponentBase.params
  lockOwner,       \* owner of ComponentBase.condition's lock (0: free)
  pc,              \* position of each component's thread
  slot,            \* run_component: index of the next capability lookup
  tgt,             \* fetch: the component whose fetch() the thread is in
  rv,              \* value run_component returned
  exc,             \* exception propagating in (or out of) the thread
  fetchLog,        \* history: the completed fetch() calls of each thread
  waited,          \* history: the thread's current fetch() went through wait()
  calls,           \* history: the fetch() calls each thread has made
  runs,            \* history: the calls of each component's run_component
  started,         \* history: the calls of each component's run()
  finalized,       \* history: the calls of each component's finalize_parsing()
  extern           \* what each run_component found and did outside the program: output
                   \* files seen, dbxml removed, external program run, its exit code

vars == <<cfgfile, lineno, mainpc, component_list, cap_tbl, next, fail, message,
          status, results, params, lockOwner, pc, slot, tgt, rv, exc, fetchLog,
          waited, calls, runs, started, finalized, extern>>

history == <<waited, calls, runs, started, finalized>>

Comps == 1..Len(component_list)

NoExc == "none"
NoRv == [tag |-> "unset", val |-> 0]
NoneRv == [tag |-> "None", val |-> 0]
IntRv(n) == [tag |-> "int", val |-> n]

\* -------------------------------------------------- run_component tables
\* number of capability lookups of a class's run_component
NSlots(c) == Len(Slots(c))

\* errors the code before segment k's writes can raise (segment k is the
\* code between the (k-1)-th and the k-th capability lookup; segment
\* NSlots+1 runs to the end of run_component)
PreErrors(c, k) ==
  CASE c = Base /\ k = 1 -> {"NotImplementedError"}
    [] c = Gcam /\ k = 1 -> {"KeyError", "IOError"}
    [] c = Hydro /\ k = 1 -> {"KeyError"}
    [] c = Hydro /\ k = 2 -> {"IOError"}
    [] c = HistHydro /\ k = 1 -> {"IOError"}
    [] c = Water /\ k \in {1, 4} -> {"KeyError"}
    [] c = Netcdf /\ k = 3 -> {"KeyError"}
    [] OTHER -> {}

\* the result keys segment k writes
SegKeys(c, k) ==
  CASE c = Gcam /\ k = 1 -> {"dbxml"}
    [] c = Hydro /\ k = 2 ->
         {"qoutfile", "foutfile", "cqfile", "cflxfile", "basinqfile", "cbasinqfile",
          "rgnqfile", "crgnqfile", "basinqtbl", "rgnqtbl", "petoutfile", "runid"}
    [] c = HistHydro /\ k = 1 ->
         {"qoutfile", "foutfile", "chstorfile", "basinqtbl", "rgnqtbl", "petoutfile"}
    [] c = Water /\ k = 4 ->
         {"water-transfer", "wdtotal", "wddom", "wdelec", "wdirr", "wdliv", "wdmfg",
          "wdmin", "wsi", "basin-supply", "basin-wdtot", "basin-wddom", "basin-wdelec",
          "basin-wdirr", "basin-wdliv", "basin-wdmfg", "basin-wdmin", "basin-wsi",
          "rgn-supply", "rgn-wdtot", "rgn-wddom", "rgn-wdelec", "rgn-wdirr", "rgn-wdliv",
          "rgn-wdmfg", "rgn-wdmin", "rgn-wsi", "pop-demo"}
    [] c = Netcdf /\ k = 3 -> {"outfile"}
    [] OTHER -> {}

\* segment k can end run_component with "results exist and no clobber":
\* changed = 0, return 0
SkipAt(c, k) ==
  \/ c = Gcam /\ k = 1
  \/ c = Hydro /\ k = 2
  \/ c = HistHydro /\ k = 1
  \/ c = Water /\ k = 4

\* errors the code after segment k's writes can raise
PostErrors(c, k) ==
  CASE c = Gcam /\ k = 1 -> {"RuntimeError"}
    [] OTHER -> {}

\* the values segment k can return before its writes (a failure code of the
\* component's own parameter checks)
PreReturns(c, k) ==
  CASE c = Water /\ k = 4 -> {IntRv(5)}
    [] OTHER -> {}

\* nothing seen, nothing done yet
NoExtern == [seen |-> "unknown", unlinked |-> FALSE, ran |-> FALSE, exit |-> -1, after |-> "unknown"]

\* run_component removes an existing dbxml file before the run (clobber set)
Unlinks(c) == c = Gcam

\* after the external program ended, run_component tests util.allexist on
\* its output files and returns 1 when one is missing
ChecksAfter(c) == c \in {Hydro, HistHydro}

\* what that test can find
AfterOutcomes(c) == IF ChecksAfter(c) THEN {"all", "missing"} ELSE {"unknown"}

\* variant: the exit code is returned whatever files exist
ReturnValue_ExitCode(c, r, after) == r

\* the value run_component returns after the external program ended with
\* exit code r
ReturnValue(c, r, after) == IF ChecksAfter(c) /\ after = "missing" THEN IntRv(1) ELSE r

\* the exit codes of the external program (GlobalParamsComponent runs none
\* and returns 0)
ReturnValues(c) ==
  CASE c = Base -> {}
    [] c = Global -> {IntRv(0)}
    [] OTHER -> {IntRv(0), IntRv(1)}

\* ------------------------------------------------------------- gcam_parse
\* cap_tbl[name] = self, in a component class's __init__
Register(tbl, name, i) == [tbl EXCEPT ![name] = i]

\* the dictionary self.results names after __init__
InitResults(c) == IF c = Global THEN EmptyMap ELSE Put(EmptyMap, "changed", "1")

\* the class a section header names: "global" (in any case) stands for
\* GlobalParamsComponent, any other name is evaluated as a class name
SectionClass(name) == IF name \in {"Global", "global"} THEN Global ELSE name

\* the line gcam_parse is about to read
Line == cfgfile[lineno]

\* a section header line: create the component, append it to component_list
ParseSection ==
  /\ mainpc = "parse"
  /\ lineno <= Len(cfgfile)
  /\ Line.kind = "section"
  /\ LET c == SectionClass(Line.key)
     IN  /\ component_list' = Append(component_list, c)
         /\ cap_tbl' = IF Capability(c) = NoCap THEN cap_tbl
                        ELSE Register(cap_tbl, Capability(c), Len(component_list) + 1)
         /\ results' = Append(results, InitResults(c))
  /\ lineno' = lineno + 1
  /\ status' = Append(status, 0)
  /\ params' = Append(params, EmptyMap)
  /\ lockOwner' = Append(lockOwner, 0)
  /\ pc' = Append(pc, "idle")
  /\ slot' = Append(slot, 0)
  /\ tgt' = Append(tgt, 0)
  /\ rv' = Append(rv, NoRv)
  /\ exc' = Append(exc, NoExc)
  /\ fetchLog' = Append(fetchLog, <<>>)
  /\ UNCHANGED <<cfgfile, mainpc, next, fail, message>>
  /\ extern' = Append(extern, NoExtern)
  /\ waited' = Append(waited, FALSE)
  /\ calls' = Append(calls, 0)
  /\ runs' = Append(runs, 0)
  /\ started' = Append(started, 0)
  /\ finalized' = Append(finalized, 0)

\* self.params[key] = value; GlobalParamsComponent's results is the same
\* dictionary object as its params
addparam(i, key, value) ==
  /\ params' = [params EXCEPT ![i] = Put(@, key, value)]
  /\ results' = IF component_list[i] = Global
                 THEN [results EXCEPT ![i] = Put(@, key, value)]
                 ELSE results

\* a key=value line: add the parameter to the current component
ParseKeyVal ==
  /\ mainpc = "parse"
  /\ lineno <= Len(cfgfile)
  /\ Line.kind = "keyval"
  /\ Len(component_list) > 0
  /\ addparam(Len(component_list), Line.key, Line.val)
  /\ lineno' = lineno + 1
  /\ UNCHANGED <<cfgfile, extern, mainpc, component_list, cap_tbl, next, fail, message, status,
                 lockOwner, pc, slot, tgt, rv, exc, fetchLog>>
  /\ UNCHANGED history

\* a line that is neither a section header nor key=value, or a key=value
\* line before the first section header: gcam_parse raises RuntimeError,
\* which ends the program
ParseError ==
  /\ mainpc = "parse"
  /\ lineno <= Len(cfgfile)
  /\ \/ Line.kind = "other"
     \/ Line.kind = "keyval" /\ Len(component_list) = 0
  /\ mainpc' = "aborted"
  /\ UNCHANGED <<cfgfile, extern, lineno, component_list, cap_tbl, next, fail, message, status,
                 results, params, lockOwner, pc, slot, tgt, rv, exc, fetchLog>>
  /\ UNCHANGED history

\* ---------------------------------------------------------------- __main__
\* the position after one pass of a loop over component_list: the next
\* element, or the statement after the loop
LoopStep(here, after) ==
  IF next < Len(component_list)
  THEN mainpc' = here /\ next' = next + 1
  ELSE mainpc' = after /\ next' = 1

\* the closing message: success when the failure count is 0
Message(f) == IF f = 0 THEN "success" ELSE "failed"

\* variant: finalize_parsing is called on the component of the last section
\* only
finalize_parsing_Last(f) == [i \in DOMAIN f |-> IF i = Len(f) THEN f[i] + 1 ELSE f[i]]

\* "for component in component_list: component.finalize_parsing()", as the
\* number of calls each component has received
finalize_parsing(f) == [i \in DOMAIN f |-> f[i] + 1]

\* end of the configuration file: gcam_parse returns; with no component
\* the loops of __main__ do nothing and the closing message is printed
FinishParse ==
  /\ mainpc = "parse"
  /\ lineno > Len(cfgfile)
  /\ mainpc' = IF Len(component_list) = 0 THEN "fin" ELSE "launch"
  /\ message' = IF Len(component_list) = 0 THEN Message(fail) ELSE message
  /\ next' = 1
  /\ finalized' = finalize_parsing(finalized)
  /\ UNCHANGED <<cfgfile, extern, lineno, component_list, cap_tbl, fail, status, results, params,
                 lockOwner, pc, slot, tgt, rv, exc, fetchLog>>
  /\ UNCHANGED <<waited, calls, runs, started>>

\* variant: run() calls the wrapper on the caller's thread, so the call
\* returns when the component's work has ended
Launch_Synchronous ==
  /\ mainpc = "launch"
  /\ \A i \in 1..(next - 1) : pc[i] \in {"done", "died"}
  /\ pc' = [pc EXCEPT ![next] = "start"]
  /\ LoopStep("launch", "join")
  /\ started' = [started EXCEPT ![next] = @ + 1]
  /\ UNCHANGED <<cfgfile, extern, lineno, component_list, cap_tbl, fail, message, status, results,
                 params, lockOwner, slot, tgt, rv, exc, fetchLog, waited, calls, runs,
                 finalized>>

\* variant: a component writes itself into the capability table when it is
\* started, not when it is created
Launch_Registers ==
  /\ mainpc = "launch"
  /\ pc' = [pc EXCEPT ![next] = "start"]
  /\ cap_tbl' = IF Capability(component_list[next]) = NoCap THEN cap_tbl
                 ELSE Register(cap_tbl, Capability(component_list[next]), next)
  /\ LoopStep("launch", "join")
  /\ started' = [started EXCEPT ![next] = @ + 1]
  /\ UNCHANGED <<cfgfile, extern, lineno, component_list, fail, message, status, results,
                 params, lockOwner, slot, tgt, rv, exc, fetchLog, waited, calls, runs,
                 finalized>>

\* threads.append(component.run()): ComponentBase.run starts the thread
Launch ==
  /\ mainpc = "launch"
  /\ pc' = [pc EXCEPT ![next] = "start"]
  /\ LoopStep("launch", "join")
  /\ started' = [started EXCEPT ![next] = @ + 1]
  /\ UNCHANGED <<cfgfile, extern, lineno, component_list, cap_tbl, fail, message, status, results,
                 params, lockOwner, slot, tgt, rv, exc, fetchLog, waited, calls, runs,
                 finalized>>

\* variant: join() returns for a thread that has been started
Terminated_Started(i) == pc[i] # "idle"

\* the thread's target function has ended, normally or by an exception
Terminated(i) == pc[i] \in {"done", "died"}

\* thread.join()
Join ==
  /\ mainpc = "join"
  /\ Terminated(next)
  /\ LoopStep("join", "report")
  /\ UNCHANGED <<cfgfile, extern, lineno, component_list, cap_tbl, fail, message, status, results, params,
                 lockOwner, pc, slot, tgt, rv, exc, fetchLog>>
  /\ UNCHANGED history

\* variant: the loop counts the components that have not run
CountsAsFailure_NotRun(st) == st = 0

\* "if component.status != 1": the component counts as failed
CountsAsFailure(st) == st # 1

\* one pass of the loop that counts the failed components; after the last
\* pass the closing message is printed
Report ==
  /\ mainpc = "report"
  /\ fail' = IF CountsAsFailure(status[next]) THEN fail + 1 ELSE fail
  /\ message' = IF next < Len(component_list) THEN message ELSE Message(fail')
  /\ LoopStep("report", "fin")
  /\ UNCHANGED <<cfgfile, extern, lineno, component_list, cap_tbl, status, results, params,
                 lockOwner, pc, slot, tgt, rv, exc, fetchLog>>
  /\ UNCHANGED history

\* ------------------------------------------------- run_component_wrapper
Class(i) == component_list[i]

\* variant: clobber is False unless the parameter says True
clobber_DefaultFalse(i) ==
  IF "clobber" \in DOMAIN params[i] THEN params[i]["clobber"] = "True" ELSE FALSE

\* finalize_parsing: self.clobber, True unless the clobber parameter says False
clobber(i) ==
  IF "clobber" \in DOMAIN params[i] THEN params[i]["clobber"] # "False" ELSE TRUE

\* "rv == 0" of Python, for the values a run_component can return
RvEqZero(r) == r.tag = "int" /\ r.val = 0

\* variant: the wrapper does not test the return value
StatusAfter_IgnoresReturn(r, e) == IF e = NoExc THEN 1 ELSE 2

\* variant: a non-zero return code is stored as the status
StatusAfter_ReturnCode(r, e) ==
  IF e # NoExc THEN 2 ELSE IF r.val = 0 THEN 1 ELSE r.val

\* the status the wrapper sets: 1 after "self.status = 1", 2 in the except clause
StatusAfter(r, e) == IF e = NoExc /\ RvEqZero(r) THEN 1 ELSE 2

\* the exception that leaves the try block: the one run_component raised, or
\* the RuntimeError the wrapper raises for a non-zero return value
ExcAfter(r, e) ==
  IF e # NoExc THEN e ELSE IF RvEqZero(r) THEN NoExc ELSE "RuntimeError:rc"

\* run_component ended (returned r, or raised e): the wrapper sets self.status
\* and is about to run its finally clause
Finish(i, r, e) ==
  /\ status' = [status EXCEPT ![i] = StatusAfter(r, e)]
  /\ rv' = [rv EXCEPT ![i] = r]
  /\ exc' = [exc EXCEPT ![i] = ExcAfter(r, e)]
  /\ pc' = [pc EXCEPT ![i] = "notify"]

\* a write of run_component to self.results (for GlobalParamsComponent the
\* same dictionary is self.params)
WriteResults(i, m) ==
  /\ results' = [results EXCEPT ![i] = m]
  /\ params' = IF Class(i) = Global THEN [params EXCEPT ![i] = m] ELSE params

\* variant: the wrapper calls run_component without taking the lock
Acquire_Unlocked(i) ==
  /\ pc[i] = "start"
  /\ pc' = [pc EXCEPT ![i] = "seg"]
  /\ slot' = [slot EXCEPT ![i] = 1]
  /\ UNCHANGED <<cfgfile, extern, lineno, mainpc, component_list, cap_tbl, next, fail, message, status,
                 results, params, lockOwner, tgt, rv, exc, fetchLog>>
  /\ runs' = [runs EXCEPT ![i] = @ + 1]
  /\ UNCHANGED <<waited, calls, started, finalized>>

\* variant: one lock for all components, a wrapper runs only when no other does
Acquire_Serial(i) ==
  /\ pc[i] = "start"
  /\ \A k \in Comps : lockOwner[k] = 0
  /\ lockOwner' = [lockOwner EXCEPT ![i] = i]
  /\ pc' = [pc EXCEPT ![i] = "seg"]
  /\ slot' = [slot EXCEPT ![i] = 1]
  /\ UNCHANGED <<cfgfile, extern, lineno, mainpc, component_list, cap_tbl, next, fail, message, status,
                 results, params, tgt, rv, exc, fetchLog>>
  /\ runs' = [runs EXCEPT ![i] = @ + 1]
  /\ UNCHANGED <<waited, calls, started, finalized>>

\* "with self.condition:" of the wrapper, then the call of run_component
Acquire(i) ==
  /\ pc[i] = "start"
  /\ lockOwner[i] = 0
  /\ lockOwner' = [lockOwner EXCEPT ![i] = i]
  /\ pc' = [pc EXCEPT ![i] = "seg"]
  /\ slot' = [slot EXCEPT ![i] = 1]
  /\ UNCHANGED <<cfgfile, extern, lineno, mainpc, component_list, cap_tbl, next, fail, message, status,
                 results, params, tgt, rv, exc, fetchLog>>
  /\ runs' = [runs EXCEPT ![i] = @ + 1]
  /\ UNCHANGED <<waited, calls, started, finalized>>

\* the thread is in run_component, at the start of segment k
InSegment(i, k) == pc[i] = "seg" /\ slot[i] = k

\* variant: a segment's writes to self.results are lost
SegResults_None(i) == results[i]

\* results after the writes of the current segment
SegResults(i) == PutAll(results[i], SegKeys(Class(i), slot[i]), "<path>")

\* the code before the segment's writes raises e
RaisePre(i, e) ==
  /\ pc[i] = "seg"
  /\ Class(i) # Global
  /\ e \in PreErrors(Class(i), slot[i])
  /\ Finish(i, NoRv, e)
  /\ UNCHANGED <<cfgfile, extern, lineno, mainpc, component_list, cap_tbl, next, fail, message, results,
                 params, lockOwner, slot, tgt, fetchLog>>
  /\ UNCHANGED history

\* the parameter check of the segment fails: WaterDisaggregationComponent
\* reads transfer-file whenever water-transfer is in self.params, and
\* returns 5 on the KeyError
ReturnsEarly(i) ==
  /\ PreReturns(Class(i), slot[i]) # {}
  /\ "water-transfer" \in DOMAIN params[i]
  /\ "transfer-file" \notin DOMAIN params[i]

\* the code before the segment's writes returns a failure code
ReturnPre(i, r) ==
  /\ pc[i] = "seg"
  /\ r \in PreReturns(Class(i), slot[i])
  /\ ReturnsEarly(i)
  /\ Finish(i, r, NoExc)
  /\ UNCHANGED <<cfgfile, extern, lineno, mainpc, component_list, cap_tbl, next, fail, message, results,
                 params, lockOwner, slot, tgt, fetchLog>>
  /\ UNCHANGED history

\* the test for an existing output before the run: with clobber set an
\* existing dbxml file is removed (without clobber the run is skipped)
FoundBefore(i, existed) ==
  /\ existed => Unlinks(Class(i)) /\ clobber(i)
  /\ extern' = [extern EXCEPT ![i].seen = IF existed THEN "all" ELSE "missing",
                               ![i].unlinked = existed]

\* the code after the segment's writes raises e
RaisePost(i, e) ==
  /\ pc[i] = "seg"
  /\ e \in PostErrors(Class(i), slot[i])
  /\ WriteResults(i, SegResults(i))
  /\ Finish(i, NoRv, e)
  /\ \E existed \in BOOLEAN : FoundBefore(i, existed)
  /\ UNCHANGED <<cfgfile, lineno, mainpc, component_list, cap_tbl, next, fail, message,
                 lockOwner, slot, tgt, fetchLog>>
  /\ UNCHANGED history

\* Python truth value of a results entry
Truthy(v) == v \notin {"0", "False", ""}

\* util.abspath, on the path values of the model's configuration files
Abspath(v) == IF v = "p" THEN "/cwd/p" ELSE v

\* WaterDisaggregationComponent: gcam_rslts["changed"] or hydro_rslts["changed"],
\* read from the dictionaries fetch() returned (gcam_rslts is a local
\* dictionary with changed = False when the dbxml parameter is given)
UpstreamChanged(i) ==
  \/ Truthy(results[fetchLog[i][1].target]["changed"])
  \/ /\ Len(fetchLog[i]) >= 3
     /\ Truthy(results[fetchLog[i][3].target]["changed"])

\* the segment ends run_component with "results exist and no clobber"
Skip(i) ==
  /\ pc[i] = "seg"
  /\ SkipAt(Class(i), slot[i])
  /\ ~ReturnsEarly(i)
  /\ ~clobber(i)
  /\ Class(i) = Water => ~UpstreamChanged(i)
  /\ WriteResults(i, Put(SegResults(i), "changed", "0"))
  /\ Finish(i, IntRv(0), NoExc)
  /\ extern' = [extern EXCEPT ![i].seen = "all"]
  /\ UNCHANGED <<cfgfile, lineno, mainpc, component_list, cap_tbl, next, fail, message,
                 lockOwner, slot, tgt, fetchLog>>
  /\ UNCHANGED history

\* the last segment runs to the return statement of run_component
Return(i, r) ==
  /\ InSegment(i, NSlots(Class(i)) + 1)
  /\ Class(i) # Global
  /\ ~ReturnsEarly(i)
  /\ r \in ReturnValues(Class(i))
  /\ WriteResults(i, SegResults(i))
  /\ \E existed \in BOOLEAN, after \in AfterOutcomes(Class(i)) :
       /\ existed => Unlinks(Class(i)) /\ clobber(i)
       /\ extern' = [extern EXCEPT ![i] =
            [seen |-> IF Unlinks(Class(i)) THEN (IF existed THEN "all" ELSE "missing") ELSE @.seen,
             unlinked |-> existed, ran |-> TRUE, exit |-> r.val, after |-> after]]
       /\ Finish(i, ReturnValue(Class(i), r, after), NoExc)
  /\ UNCHANGED <<cfgfile, lineno, mainpc, component_list, cap_tbl, next, fail, message,
                 lockOwner, slot, tgt, fetchLog>>
  /\ UNCHANGED history

\* GlobalParamsComponent.run_component: reads and rewrites its own entries
GlobalRun(i) ==
  /\ pc[i] = "seg"
  /\ Class(i) = Global
  /\ LET m == results[i]
         m1 == Put(m, "ModelInterface", Abspath(m["ModelInterface"]))
         m2 == Put(m1, "DBXMLlib", Abspath(m["DBXMLlib"]))
         m3 == Put(m2, "inputdir", "/cwd/input-data")
         m4 == Put(m3, "rgnconfig", "/cwd/input-data/rgn14")
     IN  IF "ModelInterface" \notin DOMAIN m
         THEN Finish(i, NoRv, "KeyError") /\ UNCHANGED <<results, params>>
         ELSE IF "DBXMLlib" \notin DOMAIN m
         THEN Finish(i, NoRv, "KeyError") /\ WriteResults(i, m1)
         ELSE Finish(i, IntRv(0), NoExc) /\ WriteResults(i, m4)
  /\ UNCHANGED <<cfgfile, extern, lineno, mainpc, component_list, cap_tbl, next, fail, message,
                 lockOwner, slot, tgt, fetchLog>>
  /\ UNCHANGED history

\* variant: the component looks up its own capability
SlotCap_Own(i) == Capability(Class(i))

\* the capability the current segment ends by looking up
SlotCap(i) == Slots(Class(i))[slot[i]]

\* variant: every lookup is made
SlotSkipped_Never(i) == FALSE

\* the lookup is not made: HydroComponent tests "'historical-hydro' in
\* self.cap_tbl", WaterDisaggregationComponent tests "'dbxml' in self.params"
SlotSkipped(i) ==
  \/ Class(i) = Hydro /\ slot[i] = 1 /\ cap_tbl[SlotCap(i)] = 0
  \/ Class(i) = Water /\ slot[i] = 3 /\ "dbxml" \in DOMAIN params[i]

\* what the branch that replaces a skipped lookup writes
SkipWrites(i, m) ==
  IF Class(i) = Hydro THEN PutAll(m, {"hist-fout", "hist-qout"}, "/dev/null") ELSE m

\* the segment ends at a lookup that is not made
SkipSlot(i) ==
  /\ pc[i] = "seg"
  /\ slot[i] <= NSlots(Class(i))
  /\ SlotSkipped(i)
  /\ WriteResults(i, SkipWrites(i, SegResults(i)))
  /\ slot' = [slot EXCEPT ![i] = @ + 1]
  /\ UNCHANGED <<cfgfile, extern, lineno, mainpc, component_list, cap_tbl, next, fail, message, status,
                 lockOwner, pc, tgt, rv, exc, fetchLog>>
  /\ UNCHANGED history

\* variant: a lookup never raises
Unknown_Never(tbl, name) == FALSE

\* self.cap_tbl[name] raises KeyError: the name is not in the table
Unknown(tbl, name) == tbl[name] = 0

\* the KeyError of a capability lookup (its argument is the capability name)
LookupError == "KeyError:capability"

\* the segment ends at a lookup of a name that is not registered
LookupFails(i) ==
  /\ pc[i] = "seg"
  /\ slot[i] <= NSlots(Class(i))
  /\ ~SlotSkipped(i)
  /\ Unknown(cap_tbl, SlotCap(i))
  /\ WriteResults(i, SegResults(i))
  /\ Finish(i, NoRv, LookupError)
  /\ UNCHANGED <<cfgfile, extern, lineno, mainpc, component_list, cap_tbl, next, fail, message,
                 lockOwner, slot, tgt, fetchLog>>
  /\ UNCHANGED history

\* the segment ends at self.cap_tbl[name].fetch(): the call of fetch
Lookup(i) ==
  /\ pc[i] = "seg"
  /\ slot[i] <= NSlots(Class(i))
  /\ ~SlotSkipped(i)
  /\ ~Unknown(cap_tbl, SlotCap(i))
  /\ WriteResults(i, SegResults(i))
  /\ tgt' = [tgt EXCEPT ![i] = cap_tbl[SlotCap(i)]]
  /\ pc' = [pc EXCEPT ![i] = "f_lock"]
  /\ UNCHANGED <<cfgfile, extern, lineno, mainpc, component_list, cap_tbl, next, fail, message, status,
                 lockOwner, slot, rv, exc, fetchLog>>
  /\ calls' = [calls EXCEPT ![i] = @ + 1]
  /\ UNCHANGED <<waited, runs, started, finalized>>

\* ------------------------------------------------------------------ fetch
\* variant: fetch never waits
WaitNeeded_Never(s) == FALSE

\* "if self.status == 0": the caller must wait
WaitNeeded(s) == s = 0

\* variant: fetch returns the results whatever the status
FetchFails_Never(s) == FALSE

\* variant: fetch raises only for a component that has not run
FetchFails_OnlyPending(s) == s = 0

\* "if self.status != 1": fetch raises
FetchFails(s) == s # 1

\* variant: fetch raises the exception that ended the component's run
FetchExc_Cause(p) == exc[p]

\* the exception fetch raises: a RuntimeError whose message holds the
\* component's class and a fixed text
FetchExc(p) == "RuntimeError:fetch:" \o Class(p)


\* variant: notify_all is issued only when the run succeeded (no finally)
Waiters_OnSuccess(i) ==
  IF status[i] = 1 THEN {j \in Comps : pc[j] = "f_wait" /\ tgt[j] = i} ELSE {}

\* variant: one condition variable for all components: notify_all releases
\* the threads waiting on any component
Waiters_All(i) == {j \in Comps : pc[j] = "f_wait"}

\* variant: notify() in place of notify_all(): one waiting thread is released
Waiters_One(i) ==
  LET w == {j \in Comps : pc[j] = "f_wait" /\ tgt[j] = i}
  IN  IF w = {} THEN {} ELSE {CHOOSE j \in w : TRUE}

\* the threads notify_all releases: every thread waiting on the condition
Waiters(i) == {j \in Comps : pc[j] = "f_wait" /\ tgt[j] = i}

\* "with self.condition:" of fetch, the status test, and either wait() (which
\* releases the lock) or the end of the with block
FetchEnter(j) ==
  /\ pc[j] = "f_lock"
  /\ lockOwner[tgt[j]] = 0
  /\ pc' = [pc EXCEPT ![j] = IF WaitNeeded(status[tgt[j]]) THEN "f_wait" ELSE "f_check"]
  /\ UNCHANGED <<cfgfile, extern, lineno, mainpc, component_list, cap_tbl, next, fail, message, status,
                 results, params, lockOwner, slot, tgt, rv, exc, fetchLog>>
  /\ waited' = [waited EXCEPT ![j] = WaitNeeded(status[tgt[j]])]
  /\ UNCHANGED <<calls, runs, started, finalized>>

\* wait() returns: the notified thread takes the lock again and leaves the
\* with block
FetchWake(j) ==
  /\ pc[j] = "f_woken"
  /\ lockOwner[tgt[j]] = 0
  /\ pc' = [pc EXCEPT ![j] = "f_check"]
  /\ UNCHANGED <<cfgfile, extern, lineno, mainpc, component_list, cap_tbl, next, fail, message, status,
                 results, params, lockOwner, slot, tgt, rv, exc, fetchLog>>
  /\ UNCHANGED history

\* what the caller does with the dictionary right after fetch returned it:
\* HydroComponent reads chstorfile, foutfile and qoutfile of the historical
\* results and copies two of them
PostFetchKeys(j) ==
  IF Class(j) = Hydro /\ slot[j] = 1 THEN {"chstorfile", "foutfile", "qoutfile"} ELSE {}

PostFetch(j, m) ==
  IF Class(j) = Hydro /\ slot[j] = 1
  THEN Put(Put(results[j], "hist-fout", m["foutfile"]), "hist-qout", m["qoutfile"])
  ELSE results[j]

\* variant: the caller clears the changed flag of the dictionary it received
FetchReturn_Marks(j) ==
  /\ pc[j] = "f_check"
  /\ ~FetchFails(status[tgt[j]])
  /\ fetchLog' = [fetchLog EXCEPT ![j] =
       Append(@, [target |-> tgt[j], ok |-> TRUE, err |-> NoExc,
                  res |-> results[tgt[j]], waited |-> waited[j]])]
  /\ IF PostFetchKeys(j) \subseteq DOMAIN results[tgt[j]]
     THEN /\ results' = [results EXCEPT ![j] = PostFetch(j, results[tgt[j]]),
                                        ![tgt[j]] = Put(@, "changed", "0")]
          /\ params' = IF Class(tgt[j]) = Global
                        THEN [params EXCEPT ![tgt[j]] = Put(@, "changed", "0")]
                        ELSE params
          /\ slot' = [slot EXCEPT ![j] = @ + 1]
          /\ pc' = [pc EXCEPT ![j] = "seg"]
          /\ UNCHANGED <<status, rv, exc>>
     ELSE /\ Finish(j, NoRv, "KeyError")
          /\ UNCHANGED <<results, params, slot>>
  /\ waited' = [waited EXCEPT ![j] = FALSE]
  /\ UNCHANGED <<cfgfile, extern, lineno, mainpc, component_list, cap_tbl, next, fail, message,
                 lockOwner, tgt, calls, runs, started, finalized>>

\* "return self.results", and the caller's reads of the returned dictionary
\* (a missing key is a KeyError in the caller's run_component)
FetchReturn(j) ==
  /\ pc[j] = "f_check"
  /\ ~FetchFails(status[tgt[j]])
  /\ fetchLog' = [fetchLog EXCEPT ![j] =
       Append(@, [target |-> tgt[j], ok |-> TRUE, err |-> NoExc,
                  res |-> results[tgt[j]], waited |-> waited[j]])]
  /\ IF PostFetchKeys(j) \subseteq DOMAIN results[tgt[j]]
     THEN /\ WriteResults(j, PostFetch(j, results[tgt[j]]))
          /\ slot' = [slot EXCEPT ![j] = @ + 1]
          /\ pc' = [pc EXCEPT ![j] = "seg"]
          /\ UNCHANGED <<status, rv, exc>>
     ELSE /\ Finish(j, NoRv, "KeyError")
          /\ UNCHANGED <<results, params, slot>>
  /\ waited' = [waited EXCEPT ![j] = FALSE]
  /\ UNCHANGED <<cfgfile, extern, lineno, mainpc, component_list, cap_tbl, next, fail, message,
                 lockOwner, tgt, calls, runs, started, finalized>>

\* variant: the caller catches the error of fetch and goes on with its work
FetchRaise_Caught(j) ==
  /\ pc[j] = "f_check"
  /\ FetchFails(status[tgt[j]])
  /\ fetchLog' = [fetchLog EXCEPT ![j] =
       Append(@, [target |-> tgt[j], ok |-> FALSE, err |-> FetchExc(tgt[j]),
                  res |-> EmptyMap, waited |-> waited[j]])]
  /\ slot' = [slot EXCEPT ![j] = @ + 1]
  /\ pc' = [pc EXCEPT ![j] = "seg"]
  /\ UNCHANGED <<cfgfile, extern, lineno, mainpc, component_list, cap_tbl, next, fail, message,
                 status, rv, exc, results, params, lockOwner, tgt>>
  /\ waited' = [waited EXCEPT ![j] = FALSE]
  /\ UNCHANGED <<calls, runs, started, finalized>>

\* "raise RuntimeError(...)" of fetch; no run_component catches it, so it
\* ends the caller's run_component
FetchRaise(j) ==
  /\ pc[j] = "f_check"
  /\ FetchFails(status[tgt[j]])
  /\ fetchLog' = [fetchLog EXCEPT ![j] =
       Append(@, [target |-> tgt[j], ok |-> FALSE, err |-> FetchExc(tgt[j]),
                  res |-> EmptyMap, waited |-> waited[j]])]
  /\ Finish(j, NoRv, FetchExc(tgt[j]))
  /\ UNCHANGED <<cfgfile, extern, lineno, mainpc, component_list, cap_tbl, next, fail, message,
                 results, params, lockOwner, slot, tgt>>
  /\ waited' = [waited EXCEPT ![j] = FALSE]
  /\ UNCHANGED <<calls, runs, started, finalized>>

\* ---------------------------------------- end of run_component_wrapper
\* the finally clause: self.condition.notify_all()
Notify(i) ==
  /\ pc[i] = "notify"
  /\ pc' = [j \in DOMAIN pc |->
              IF j = i THEN "release"
              ELSE IF j \in Waiters(i) THEN "f_woken" ELSE pc[j]]
  /\ UNCHANGED <<cfgfile, extern, lineno, mainpc, component_list, cap_tbl, next, fail, message, status,
                 results, params, lockOwner, slot, tgt, rv, exc, fetchLog>>
  /\ UNCHANGED history

\* variant: the except clause does not re-raise
EndOfThread_Swallow(e) == "done"

\* how the thread's target function ends: by the re-raised exception, or
\* normally
EndOfThread(e) == IF e = NoExc THEN "done" ELSE "died"

\* the end of the with block releases the lock; the wrapper returns or the
\* exception re-raised by the except clause leaves the thread
Release(i) ==
  /\ pc[i] = "release"
  /\ lockOwner' = [lockOwner EXCEPT ![i] = 0]
  /\ pc' = [pc EXCEPT ![i] = EndOfThread(exc[i])]
  /\ UNCHANGED <<cfgfile, extern, lineno, mainpc, component_list, cap_tbl, next, fail, message, status,
                 results, params, slot, tgt, rv, exc, fetchLog>>
  /\ UNCHANGED history

\* ---------------------------------------------------------- specification
Errors == {"KeyError", "IOError", "RuntimeError", "NotImplementedError"}

\* configuration lines
Sect(name) == [kind |-> "section", key |-> name, val |-> ""]
KV(k, v) == [kind |-> "keyval", key |-> k, val |-> v]
Other == [kind |-> "other", key |-> "", val |-> ""]

NoClobber == KV("clobber", "False")

\* the sections of the model's configuration files: a header and the
\* parameter lines that decide what run_component does
Blocks ==
  {<<Sect("Global")>>,
   <<Sect("Global"), KV("ModelInterface", "p")>>,
   <<Sect("Global"), KV("ModelInterface", "p"), KV("DBXMLlib", "p")>>,
   <<Sect(Gcam)>>, <<Sect(Gcam), NoClobber>>,
   <<Sect(Hydro)>>, <<Sect(Hydro), NoClobber>>,
   <<Sect(HistHydro)>>, <<Sect(HistHydro), NoClobber>>,
   <<Sect(Water)>>, <<Sect(Water), NoClobber>>,
   <<Sect(Water), KV("dbxml", "p")>>, <<Sect(Water), KV("dbxml", "p"), NoClobber>>,
   <<Sect(Netcdf)>>,
   <<Sect(Base)>>}

\* every file of at most n sections
RECURSIVE FilesOf(_)
FilesOf(n) ==
  IF n = 0 THEN {<<>>}
  ELSE FilesOf(n - 1) \cup {f \o b : f \in FilesOf(n - 1), b \in Blocks}

GlobalOk == <<Sect("Global"), KV("ModelInterface", "p"), KV("DBXMLlib", "p")>>

WaterDb == <<Sect(Water), KV("dbxml", "p")>>

\* longer files: the hydrology and water pipeline with and without the GCAM
\* component, in the order of the data flow and with the consumers first,
\* with cached outputs (clobber = False), with both the GCAM component
\* and the dbxml parameter, with the water transfer parameters, and the
\* historical hydrology run anew ahead of a cached future hydrology
Pipelines ==
  {GlobalOk \o <<Sect(HistHydro), Sect(Hydro)>> \o WaterDb \o <<Sect(Netcdf)>>,
   GlobalOk \o <<Sect(Gcam), Sect(Hydro), Sect(Water)>>,
   <<Sect(Netcdf)>> \o WaterDb \o <<Sect(Hydro), Sect(HistHydro)>> \o GlobalOk,
   <<Sect(Water), Sect(Hydro), Sect(Gcam)>> \o GlobalOk,
   GlobalOk \o <<Sect(Hydro), NoClobber>> \o WaterDb \o <<NoClobber, Sect(Netcdf)>>,
   GlobalOk \o <<Sect(Gcam), Sect(Hydro)>> \o WaterDb,
   GlobalOk \o <<Sect(Hydro)>> \o WaterDb \o <<KV("water-transfer", "False")>>,
   GlobalOk \o <<Sect(Hydro)>> \o WaterDb \o <<KV("water-transfer", "True")>>,
   GlobalOk \o <<Sect(Hydro)>> \o WaterDb
     \o <<KV("water-transfer", "True"), KV("transfer-file", "p")>>,
   GlobalOk \o <<Sect(HistHydro), Sect(Hydro), NoClobber>>}

\* files gcam_parse rejects: a parameter before the first section header, a
\* line that is neither a header nor key=value
Malformed ==
  {<<NoClobber, Sect(Gcam)>>, <<Sect(Gcam), Other, Sect(Hydro)>>}

Configs == FilesOf(MaxSections) \cup Pipelines \cup Malformed

\* the state before gcam_parse reads the first line
InitState ==
  /\ lineno = 1
  /\ mainpc = "parse"
  /\ component_list = <<>>
  /\ cap_tbl = [n \in Caps |-> 0]
  /\ next = 1
  /\ fail = 0
  /\ message = "none"
  /\ status = <<>>
  /\ results = <<>>
  /\ params = <<>>
  /\ lockOwner = <<>>
  /\ pc = <<>>
  /\ slot = <<>>
  /\ tgt = <<>>
  /\ rv = <<>>
  /\ exc = <<>>
  /\ fetchLog = <<>>
  /\ waited = <<>>
  /\ calls = <<>>
  /\ runs = <<>>
  /\ started = <<>>
  /\ finalized = <<>>
  /\ extern = <<>>

Init == cfgfile \in Configs /\ InitState

Next ==
  \/ ParseSection
  \/ ParseKeyVal
  \/ ParseError
  \/ FinishParse
  \/ Launch
  \/ Join
  \/ Report
  \/ \E i \in Comps : Acquire(i)
  \/ \E i \in Comps, e \in Errors : RaisePre(i, e)
  \/ \E i \in Comps, e \in Errors : RaisePost(i, e)
  \/ \E i \in Comps, r \in {IntRv(5)} : ReturnPre(i, r)
  \/ \E i \in Comps, r \in {IntRv(0), IntRv(1)} : Return(i, r)
  \/ \E i \in Comps : Skip(i)
  \/ \E i \in Comps : GlobalRun(i)
  \/ \E i \in Comps : SkipSlot(i)
  \/ \E i \in Comps : LookupFails(i)
  \/ \E i \in Comps : Lookup(i)
  \/ \E i \in Comps : FetchEnter(i)
  \/ \E i \in Comps : FetchWake(i)
  \/ \E i \in Comps : FetchReturn(i)
  \/ \E i \in Comps : FetchRaise(i)
  \/ \E i \in Comps : Notify(i)
  \/ \E i \in Comps : Release(i)

Spec == Init /\ [][Next]_vars

\* configuration files with a circular dependency: CycleA and CycleB alone,
\* with a component that fetches from CycleA, and with an independent
\* component
CycleConfigs ==
  {<<Sect(CycleA), Sect(CycleB)>>,
   <<Sect(CycleB), Sect(CycleA), Sect(CycleC)>>,
   <<Sect(CycleC), Sect(CycleA), Sect(CycleB)>>,
   GlobalOk \o <<Sect(CycleA), Sect(CycleB)>>}

InitCycle == cfgfile \in (CycleConfigs \cup Pipelines \cup Malformed \cup FilesOf(1)) /\ InitState

SpecCycle == InitCycle /\ [][Next]_vars

\* ================================================================ claims
\* the positions of a thread inside fetch()
FetchStates == {"f_lock", "f_wait", "f_woken", "f_check"}

\* the completed fetch() calls: <<caller, index in the caller's log>>
Fetched == {<<j, n>> \in Comps \X (1..4) : n <= Len(fetchLog[j])}

Entry(x) == fetchLog[x[1]][x[2]]

\* C1: a fetch() call on P is past its with block (about to return or raise)
\* only when P.status is 1 or 2 and P's thread has left the wrapper; every
\* completed call was on a component whose status is 1 or 2.
C1_FetchCompletesAfterProducer ==
  /\ \A j \in Comps : pc[j] = "f_check" =>
       /\ status[tgt[j]] \in {1, 2}
       /\ Terminated(tgt[j])
  /\ \A x \in Fetched : status[Entry(x).target] \in {1, 2} /\ Terminated(Entry(x).target)

\* a caller that arrived before the producer took the lock, waited, and was
\* released after the producer finished
C1_Witness ==
  \E j \in Comps : pc[j] = "f_check" /\ waited[j] /\ status[tgt[j]] \in {1, 2}

\* C2: a status is 0 when the component is created, and every change of a
\* status is from 0 to 1 or from 0 to 2.
C2_StatusChangesOnce ==
  [][ /\ \A i \in DOMAIN status :
           status'[i] # status[i] => status[i] = 0 /\ status'[i] \in {1, 2}
      /\ \A i \in (DOMAIN status') \ (DOMAIN status) : status'[i] = 0 ]_vars

\* the run is over with one component Succeeded and one Failed
C2_Witness ==
  /\ mainpc = "fin"
  /\ \E i, k \in Comps : status[i] = 1 /\ status[k] = 2

\* C3: once a component's thread has issued notify_all no thread is still
\* waiting on it; all completed fetch() calls on one component have the same
\* outcome (the same dictionary, or the same error); and every fetch() call a
\* thread has made has completed exactly once, except the one it is in.
C3_AllWaitersReleased ==
  /\ \A p \in Comps : pc[p] \in {"release", "done", "died"} =>
       \A j \in Comps : ~(pc[j] = "f_wait" /\ tgt[j] = p)
  /\ \A x, y \in Fetched : Entry(x).target = Entry(y).target =>
       /\ Entry(x).ok = Entry(y).ok
       /\ Entry(x).err = Entry(y).err
       /\ Entry(x).res = Entry(y).res
  /\ \A j \in Comps :
       calls[j] = Len(fetchLog[j]) + (IF pc[j] \in FetchStates THEN 1 ELSE 0)

\* two threads waited on the same component and both have been released
C3_Witness ==
  \E j, k \in Comps :
    /\ j # k
    /\ tgt[j] = tgt[k]
    /\ pc[j] = "f_check" /\ waited[j]
    /\ pc[k] = "f_check" /\ waited[k]

\* C4: every dictionary fetch() has returned came from a component whose
\* status is 1 and whose thread has ended, it holds every key that
\* component's run_component writes, and it equals the component's results.
C4_NoHalfPublishedResult ==
  \A x \in Fetched : Entry(x).ok =>
    LET p == Entry(x).target
    IN  /\ status[p] = 1
        /\ Terminated(p)
        /\ Entry(x).res = results[p]
        /\ \A k \in 1..(NSlots(Class(p)) + 1) :
             SegKeys(Class(p), k) \subseteq DOMAIN Entry(x).res

\* a consumer has received the hydrology results
C4_Witness ==
  \E x \in Fetched :
    /\ Entry(x).ok
    /\ Class(Entry(x).target) = Hydro
    /\ "qoutfile" \in DOMAIN Entry(x).res

\* C5: every completed fetch() on a component whose status is 2 raised, and
\* no component's run_component is called more than once.
C5_FailureIsSticky ==
  /\ \A x \in Fetched : status[Entry(x).target] = 2 =>
       ~Entry(x).ok /\ Entry(x).err # NoExc
  /\ \A p \in Comps : runs[p] <= 1

\* two threads have fetched from the same Failed component, one of them
\* after the other's call had raised
C5_Witness ==
  \E x, y \in Fetched :
    /\ x[1] # y[1]
    /\ Entry(x).target = Entry(y).target
    /\ status[Entry(x).target] = 2
    /\ ~Entry(x).ok /\ ~Entry(y).ok

\* C6 (as the claim states it): a thread whose component Failed ends by a
\* normal return of its target function; no exception leaves a thread.
C6_ErrorNeverEscapes ==
  \A i \in Comps : Terminated(i) /\ status[i] = 2 => pc[i] = "done"

\* C6 (amended): an error of run_component (raised, or a non-zero return
\* value) sets status 2 in the step that ends run_component, the lock is free
\* when the thread has ended, and the thread's target function ends by that
\* exception exactly when the status is 2 and returns normally exactly when
\* the status is 1.
C6_ErrorSetsFailedThenEscapes ==
  \A i \in Comps :
    /\ exc[i] # NoExc => status[i] = 2
    /\ Terminated(i) =>
         /\ lockOwner[i] = 0
         /\ pc[i] = "died" <=> status[i] = 2
         /\ pc[i] = "died" <=> exc[i] # NoExc
         /\ pc[i] = "done" <=> status[i] = 1

\* both ways run_component can fail have ended a thread by an exception, and
\* the main thread has joined every thread
C6_Witness ==
  /\ mainpc = "fin"
  /\ \E i, k \in Comps :
       /\ pc[i] = "died" /\ status[i] = 2 /\ exc[i] = "IOError"
       /\ pc[k] = "died" /\ status[k] = 2 /\ exc[k] = "RuntimeError:rc"

WrapperDone == {i \in Comps : pc[i] \in {"notify", "release", "done", "died"}}

\* C8: once the wrapper has left its try block the status is 1 or 2, and it
\* is 1 exactly when run_component returned the integer 0 without raising;
\* the wrapper's test gives status 2 for a returned None.
C8_StatusReflectsReturn ==
  /\ \A i \in WrapperDone :
       /\ status[i] \in {1, 2}
       /\ status[i] = 1 <=> rv[i] = IntRv(0)
       /\ rv[i] = NoRv <=> (exc[i] # NoExc /\ exc[i] # "RuntimeError:rc")
  /\ StatusAfter(NoneRv, NoExc) = 2

\* the wrapper has finished for a component that returned 0, for one that
\* returned a non-zero code and for one that raised
C8_Witness ==
  \E i, j, k \in Comps :
    /\ Terminated(i) /\ rv[i] = IntRv(0) /\ status[i] = 1
    /\ Terminated(j) /\ rv[j] \in {IntRv(1), IntRv(5)} /\ status[j] = 2
    /\ Terminated(k) /\ rv[k] = NoRv /\ status[k] = 2

\* C9 (as the claim states it): a capability name that is bound stays bound
\* to the same component.
C9_DuplicateLeavesRegistryUnchanged ==
  [][\A n \in Caps : cap_tbl[n] # 0 => cap_tbl'[n] = cap_tbl[n]]_vars

\* C10: a thread is inside fetch() only for a name that is bound, and on the
\* component the name is bound to; a thread whose lookup raised KeyError did
\* not call fetch() for that name (every fetch() call it made had completed),
\* its status is 2, and the name is not bound.
C10_UnknownCapabilityFailsAtLookup ==
  \A i \in Comps :
    /\ pc[i] \in FetchStates =>
         /\ cap_tbl[SlotCap(i)] # 0
         /\ tgt[i] = cap_tbl[SlotCap(i)]
    /\ exc[i] = LookupError =>
         /\ status[i] = 2
         /\ pc[i] \notin FetchStates
         /\ calls[i] = Len(fetchLog[i])
         /\ cap_tbl[SlotCap(i)] = 0
         /\ \A j \in Comps : tgt[j] = i /\ pc[j] = "f_wait" => pc[i] = "notify"

\* the run is over, and a thread that had fetched one capability ended
\* with the KeyError of its next lookup
C10_Witness ==
  /\ mainpc = "fin"
  /\ \E i \in Comps :
       /\ exc[i] = LookupError
       /\ pc[i] = "died"
       /\ Len(fetchLog[i]) >= 1

\* C11: a step changes the capability table only while gcam_parse is running
\* and no component's run() has been called; from the first call of run() on,
\* the names bound and the component bound to each name stay the same.
C11_RegistryFixedBeforeStart ==
  [][ /\ cap_tbl' # cap_tbl =>
           /\ mainpc = "parse" /\ mainpc' = "parse"
           /\ \A i \in DOMAIN pc : pc[i] = "idle" /\ started[i] = 0
      /\ (\E i \in DOMAIN pc : pc[i] # "idle") => cap_tbl' = cap_tbl ]_vars

\* the run is over: four components were registered, ran, and were reported
C11_Witness ==
  /\ mainpc = "fin"
  /\ Cardinality({n \in Caps : cap_tbl[n] # 0}) >= 4
  /\ \A i \in Comps : started[i] = 1 /\ Terminated(i)

\* C12: run() has been called once on every component before the first
\* join, and never twice; while the driver is in its launch loop the
\* components before the loop index are started and the others are not; in
\* its join loop every thread before the loop index has ended; and in the
\* reporting loop and after it every thread has ended and every status is 1
\* or 2.
C12_StartAllThenJoinThenReport ==
  /\ \A i \in Comps : started[i] <= 1 /\ (started[i] = 1 <=> pc[i] # "idle")
  /\ mainpc = "launch" => \A i \in Comps : started[i] = (IF i < next THEN 1 ELSE 0)
  /\ mainpc \in {"join", "report", "fin"} => \A i \in Comps : started[i] = 1
  /\ mainpc = "join" => \A i \in Comps : i < next => pc[i] \in {"done", "died"}
  /\ mainpc \in {"report", "fin"} =>
       \A i \in Comps : pc[i] \in {"done", "died"} /\ status[i] \in {1, 2}

\* the driver is still starting components while the first one is inside
\* run_component and the second one waits in fetch()
C12_Witness ==
  /\ mainpc = "launch"
  /\ next = 3
  /\ pc[1] = "seg"
  /\ pc[2] = "f_lock"

\* C13: while the driver counts, fail is the number of components before the
\* loop index whose status is not 1; when the run is over fail is the number
\* of components whose status is not 1, the closing message has been printed,
\* and it is the success message exactly when that number is 0; the driver
\* is not ended by an exception once a component has been started.
C13_FailureCountAndMessage ==
  /\ mainpc = "report" =>
       fail = Cardinality({i \in Comps : i < next /\ status[i] # 1})
  /\ mainpc = "fin" =>
       /\ fail = Cardinality({i \in Comps : status[i] # 1})
       /\ message \in {"success", "failed"}
       /\ message = "success" <=> \A i \in Comps : status[i] = 1
  /\ mainpc # "fin" => message = "none"
  /\ mainpc = "aborted" => \A i \in Comps : started[i] = 0

\* the run is over with two components failed, one of them by an exception
\* that left its thread, and two succeeded
C13_Witness ==
  /\ mainpc = "fin"
  /\ fail = 2
  /\ message = "failed"
  /\ Cardinality({i \in Comps : status[i] = 1}) = 2
  /\ \E i \in Comps : pc[i] = "died"

\* C14: run() can always return: the driver's next call of run() is enabled
\* whatever the threads already started are doing; run_component has been
\* called at most once per component, and once exactly when the component's
\* thread has taken its lock; the step that calls run_component is a step of
\* the component's own thread (it takes the component's lock and leaves the
\* driver where it is), and the step that calls run() calls no run_component.
C14_StartDoesNotBlockRunsOnce ==
  /\ [](/\ mainpc = "launch" => ENABLED Launch
        /\ \A i \in Comps :
             /\ runs[i] <= 1
             /\ runs[i] = 1 <=> pc[i] \notin {"idle", "start"}
             /\ runs[i] <= started[i])
  /\ [][ /\ \A i \in DOMAIN runs : runs'[i] # runs[i] =>
              /\ pc[i] = "start" /\ lockOwner'[i] = i
              /\ mainpc' = mainpc /\ next' = next /\ started' = started
         /\ started' # started => \A i \in DOMAIN runs : runs'[i] = runs[i] ]_vars

\* the driver is about to start the third component while the first is
\* blocked in fetch() on the second, which is inside its run_component
C14_Witness ==
  /\ mainpc = "launch"
  /\ next = 3
  /\ pc[1] = "f_lock" /\ tgt[1] = 2
  /\ pc[2] = "seg" /\ runs[2] = 1
  /\ ENABLED Launch

\* the errors of a component's own work: those its run_component raises, the
\* KeyError of a lookup, and the wrapper's error for a non-zero return value
OwnErrors == Errors \cup {LookupError, "RuntimeError:rc"}

\* the components whose fetch() raised in thread t
FailedFetches(t) ==
  {fetchLog[t][n].target : n \in {m \in 1..Len(fetchLog[t]) : ~fetchLog[t][m].ok}}

\* C15: a component's terminal state depends only on its own work and on the
\* components it fetched from. A Failed component ended either with an error
\* of its own work or with the error of a fetch() it made on a component that
\* is Failed; a component none of whose fetch() calls raised ended with the
\* status its own work gives (1 for a return of 0, 2 for an own error),
\* whatever the other components did; a thread ends only by its own
\* component's error.
C15_FailureOfOthersDoesNotReach ==
  \A t \in Comps :
    /\ status[t] = 2 =>
         \/ exc[t] \in OwnErrors /\ FailedFetches(t) = {}
         \/ /\ FailedFetches(t) # {}
            /\ \A p \in FailedFetches(t) : status[p] = 2 /\ exc[t] = FetchExc(p)
    /\ (FailedFetches(t) = {} /\ t \in WrapperDone) =>
         /\ status[t] = 1 <=> rv[t] = IntRv(0)
         /\ status[t] = 2 <=> exc[t] \in OwnErrors
    /\ pc[t] = "died" => exc[t] # NoExc /\ status[t] = 2

\* the run is over: a component that fetched from another one Succeeded
\* although a component it did not fetch from had Failed
C15_Witness ==
  /\ mainpc = "fin"
  /\ \E t, u \in Comps :
       /\ status[t] = 1
       /\ Len(fetchLog[t]) >= 1
       /\ status[u] = 2 /\ pc[u] = "died"
       /\ \A n \in 1..Len(fetchLog[t]) : fetchLog[t][n].target # u

\* C16: a fetch() that raised was made on a component whose status is 2; it
\* ended the caller's run_component at once (the caller made no further
\* fetch) with status 2 and the error of fetch; when the run is over the
\* failure count covers the producer and the caller; and a component counted
\* as failed none of whose fetch() calls raised failed by its own work.
C16_FailurePropagatesAlongFetch ==
  /\ \A x \in Fetched : ~Entry(x).ok =>
       /\ status[Entry(x).target] = 2
       /\ status[x[1]] = 2
       /\ x[1] \in WrapperDone
       /\ exc[x[1]] = Entry(x).err
       /\ x[2] = Len(fetchLog[x[1]])
       /\ mainpc = "fin" => fail >= Cardinality({x[1], Entry(x).target})
  /\ mainpc = "fin" =>
       /\ fail >= Cardinality(UNION {{t} \cup FailedFetches(t) :
                                       t \in {u \in Comps : FailedFetches(u) # {}}})
       /\ \A t \in Comps :
            (status[t] # 1 /\ FailedFetches(t) = {}) => exc[t] \in OwnErrors

\* the run is over: a producer failed by its own error, a consumer's fetch on
\* it raised, a consumer of that consumer failed in turn, all three are
\* counted, and a component that fetched from none of them Succeeded
C16_Witness ==
  /\ mainpc = "fin"
  /\ fail >= 3
  /\ \E a, b, c, d \in Comps :
       /\ exc[a] = "IOError"
       /\ a \in FailedFetches(b) /\ status[b] = 2
       /\ b \in FailedFetches(c) /\ status[c] = 2
       /\ status[d] = 1 /\ FailedFetches(d) = {}

\* C17: all dictionaries fetch() has returned for one component are equal,
\* whether the call waited for the component or was made after it had
\* finished, and they equal the component's results now; and no step of any
\* thread changes the results of a component whose status is 1.
C17_PublishedResultIsImmutable ==
  /\ [](\A x, y \in Fetched :
          (Entry(x).ok /\ Entry(y).ok /\ Entry(x).target = Entry(y).target) =>
            /\ Entry(x).res = Entry(y).res
            /\ Entry(x).res = results[Entry(x).target]
            /\ status[Entry(x).target] = 1)
  /\ [][\A p \in DOMAIN status : status[p] = 1 => results'[p] = results[p]]_vars

\* two fetch() calls on one component have returned its results: one that
\* waited while the component was Pending, one made when it had finished
C17_Witness ==
  \E x, y \in Fetched :
    /\ Entry(x).target = Entry(y).target
    /\ Entry(x).ok /\ Entry(x).waited
    /\ Entry(y).ok /\ ~Entry(y).waited

\* the configuration holds a section of CycleA and a section of CycleB
HasCycle ==
  \E m, n \in 1..Len(cfgfile) : cfgfile[m] = Sect(CycleA) /\ cfgfile[n] = Sect(CycleB)

\* C18: when two components fetch each other's capability, neither of them,
\* nor a component that fetches from one of them, ever leaves status 0 or
\* ends its thread, and the driver never reaches its reporting loop.
C18_CircularDependencyDeadlocks ==
  HasCycle =>
    /\ \A i \in Comps : Class(i) \in CycleClasses =>
         /\ status[i] = 0
         /\ pc[i] \notin {"notify", "release", "done", "died"}
    /\ mainpc \notin {"report", "fin"}
    /\ fail = 0 /\ message = "none"

\* the deadlock: CycleA waits on CycleB's condition, CycleB and CycleC are
\* blocked on CycleA's lock, the driver is in join(), and no step is possible
C18_Witness ==
  /\ HasCycle
  /\ mainpc = "join"
  /\ \E a, b, c \in Comps :
       /\ Class(a) = CycleA /\ Class(b) = CycleB /\ Class(c) = CycleC
       /\ pc[a] = "f_wait" /\ tgt[a] = b
       /\ pc[b] = "f_lock" /\ tgt[b] = a /\ lockOwner[a] = a /\ lockOwner[b] = b
       /\ pc[c] = "f_lock" /\ tgt[c] = a
  /\ ~ENABLED Next

\* C19 (as the claim states it): every dictionary fetch() has returned holds
\* the changed entry, and the entry is true unless the component's
\* run_component set it to false (which it does only when it skips its work).
C19_ResultHoldsChanged ==
  \A x \in Fetched : Entry(x).ok =>
    /\ "changed" \in DOMAIN Entry(x).res
    /\ Entry(x).res["changed"] \in {"0", "1"}
    /\ Entry(x).res["changed"] = "0" => ~clobber(Entry(x).target)

\* C20 (as the claim states it): no step changes the params of a component
\* whose run() has been called.
C20_ParamsFixedOnceStarted ==
  [][\A i \in DOMAIN params : started[i] >= 1 => params'[i] = params[i]]_vars

\* every result key a class's run_component writes
WorkKeys(c) ==
  UNION {SegKeys(c, k) : k \in 1..(NSlots(c) + 1)}
    \cup (IF c = Hydro THEN {"hist-fout", "hist-qout"} ELSE {})
    \cup (IF c = Global THEN {"inputdir", "rgnconfig"} ELSE {})

\* C21 (as stated): a component whose status is not 1 (still 0, or 2) holds
\* no result entry written by its run_component.
C21_NoEntriesUnlessSucceeded ==
  \A i \in Comps : status[i] # 1 => DOMAIN results[i] \cap WorkKeys(Class(i)) = {}

\* C21 (amended): before run_component is called the results hold only what
\* __init__ and the parser put there; a component whose status is 1 holds
\* every key its run_component writes; a component whose status is not 1 has
\* had its results returned by no fetch(), whatever run_component left there.
C21_ResultsCompleteAndHandedOutOnlyOnSuccess ==
  \A i \in Comps :
    /\ runs[i] = 0 =>
         results[i] = (IF Class(i) = Global THEN params[i] ELSE InitResults(Class(i)))
    /\ status[i] = 1 => WorkKeys(Class(i)) \subseteq DOMAIN results[i]
    /\ status[i] # 1 => \A x \in Fetched : Entry(x).target = i => ~Entry(x).ok

\* a component failed after writing result entries, its thread has ended,
\* and a fetch() on it has raised
C21_Witness ==
  \E i \in Comps :
    /\ status[i] = 2
    /\ pc[i] = "died"
    /\ DOMAIN results[i] \cap WorkKeys(Class(i)) # {}
    /\ \E x \in Fetched : Entry(x).target = i /\ ~Entry(x).ok

\* C22: a step that changes a component's status or results is either a step
\* of the parser, before the component's run() is called, or a step of that
\* component's own thread inside run_component_wrapper (it holds its own
\* lock and it alone moves); no step of another thread and no step of the
\* main loops after parsing changes them, the dictionaries fetch() returned
\* included.
C22_SingleWriter ==
  [][\A i \in DOMAIN status :
       (status'[i] # status[i] \/ results'[i] # results[i]) =>
         \/ mainpc = "parse" /\ started[i] = 0 /\ pc' = pc
         \/ /\ lockOwner[i] = i
            /\ pc[i] \in {"seg", "f_check"}
            /\ pc'[i] # pc[i] \/ slot'[i] # slot[i]
            /\ \A k \in Comps \ {i} : pc'[k] = pc[k] /\ slot'[k] = slot[k]
            /\ mainpc' = mainpc /\ next' = next /\ lineno' = lineno /\ fail' = fail]_vars

\* a consumer has written its own results after fetch() returned a
\* producer's dictionary to it, and the producer still holds that dictionary
\* as returned
C22_Witness ==
  \E x \in Fetched :
    /\ Entry(x).ok
    /\ Class(Entry(x).target) # Global
    /\ Entry(x).res = results[Entry(x).target]
    /\ status[x[1]] = 1
    /\ WorkKeys(Class(x[1])) # {}
    /\ WorkKeys(Class(x[1])) \subseteq DOMAIN results[x[1]]

\* the steps of component i's thread
ThreadStep(i) ==
  \/ Acquire(i)
  \/ \E e \in Errors : RaisePre(i, e)
  \/ \E e \in Errors : RaisePost(i, e)
  \/ \E r \in {IntRv(5)} : ReturnPre(i, r)
  \/ \E r \in {IntRv(0), IntRv(1)} : Return(i, r)
  \/ Skip(i)
  \/ GlobalRun(i)
  \/ SkipSlot(i)
  \/ LookupFails(i)
  \/ Lookup(i)
  \/ FetchEnter(i)
  \/ FetchWake(i)
  \/ FetchReturn(i)
  \/ FetchRaise(i)
  \/ Notify(i)
  \/ Release(i)

\* the steps of the main thread
MainStep ==
  ParseSection \/ ParseKeyVal \/ ParseError \/ FinishParse \/ Launch \/ Join \/ Report

\* C23: a thread inside fetch() is inside the fetch() of another component,
\* never of the one whose run_component it executes; a started thread that
\* is not inside fetch() and has not ended can always take a step; the main
\* thread can always take a step unless it is in join() or has finished.
C23_BlocksOnlyInFetchOfAnother ==
  /\ \A j \in Comps :
       /\ pc[j] \in FetchStates => tgt[j] # j /\ lockOwner[j] = j
       /\ pc[j] \in {"start", "seg", "notify", "release"} => ENABLED ThreadStep(j)
  /\ mainpc \in {"parse", "launch", "report"} => ENABLED MainStep

\* a thread is suspended in wait() on another component whose thread has
\* not been started yet, while the main thread is still in the launch loop
C23_Witness ==
  \E j \in Comps :
    /\ pc[j] = "f_wait"
    /\ pc[tgt[j]] = "idle"
    /\ ~ENABLED ThreadStep(j)
    /\ mainpc = "launch"

\* the capabilities a class's run_component fetches, directly or through
\* the components it fetches from
RECURSIVE NeedsWithin(_, _)
NeedsWithin(c, n) ==
  IF n = 0 THEN {}
  ELSE LET direct == {Slots(c)[k] : k \in 1..NSlots(c)}
       IN  direct \cup UNION {NeedsWithin(d, n - 1) :
                                d \in {x \in Classes \cup CycleClasses : Capability(x) \in direct}}

NeedsOf == [c \in Classes \cup CycleClasses |-> NeedsWithin(c, 4)]

Needs(c) == NeedsOf[c]

\* no fetch relationship between components i and k, in either direction
Unrelated(i, k) ==
  /\ i # k
  /\ Capability(Class(k)) \notin Needs(Class(i))
  /\ Capability(Class(i)) \notin Needs(Class(k))

\* C24: of two components with no fetch relationship, neither holds the
\* other back: a started thread outside fetch() can take its next step
\* whatever the other is doing, and a thread inside fetch() is never inside
\* the fetch() of the other.  (That both are inside run_component at once,
\* and that the one started later ends first, is the witness.)
C24_UnrelatedNotSerialized ==
  \A i \in Comps :
    /\ (/\ pc[i] \in {"start", "seg", "f_check", "notify", "release"}
        /\ \E k \in Comps : Unrelated(i, k))
         => ENABLED ThreadStep(i)
    /\ pc[i] \in FetchStates => ~Unrelated(i, tgt[i])

\* two components with no fetch relationship are inside their wrappers at
\* the same time: the one started first is still in run_component, the one
\* started after it has already set its status
C24_Witness ==
  \E i, k \in Comps :
    /\ Unrelated(i, k)
    /\ i < k
    /\ Class(i) # Class(k)
    /\ pc[i] = "seg" /\ lockOwner[i] = i /\ status[i] = 0
    /\ pc[k] = "notify" /\ lockOwner[k] = k /\ status[k] = 1

\* ---- the outcome of a run as a function of the configuration file, in the
\* ---- environment where every input file and parameter is there, no output
\* ---- file exists yet, and every external program exits with 0
\* the number of parameter lines a section starts with
RECURSIVE LeadLen(_)
LeadLen(s) ==
  IF s = <<>> THEN 0
  ELSE IF Head(s).kind = "section" THEN 0 ELSE 1 + LeadLen(Tail(s))

\* the sections of a file gcam_parse accepts: header and parameter lines
RECURSIVE Split(_)
Split(f) ==
  IF f = <<>> THEN <<>>
  ELSE LET n == 1 + LeadLen(Tail(f))
       IN  <<SubSeq(f, 1, n)>> \o Split(SubSeq(f, n + 1, Len(f)))

RECURSIVE Concat(_)
Concat(bs) == IF bs = <<>> THEN <<>> ELSE Head(bs) \o Concat(Tail(bs))

BlockClass(b) == SectionClass(b[1].key)

BlockKeys(b) == {b[n].key : n \in 2..Len(b)}

\* the component a name is bound to after parsing the sections bs: the last
\* one that registered it, 0 when there is none
Bound(bs, name) ==
  LET who == {m \in 1..Len(bs) : Capability(BlockClass(bs[m])) = name}
  IN  IF who = {} THEN 0 ELSE CHOOSE m \in who : \A x \in who : x <= m

\* the lookup number k of section m is not made
LookupSkipped(bs, m, k) ==
  \/ BlockClass(bs[m]) = Hydro /\ k = 1 /\ Bound(bs, "historical-hydro") = 0
  \/ BlockClass(bs[m]) = Water /\ k = 3 /\ "dbxml" \in BlockKeys(bs[m])

\* the component's own code succeeds in that environment
OwnWorkSucceeds(b) ==
  /\ BlockClass(b) # Base
  /\ BlockClass(b) = Global => {"ModelInterface", "DBXMLlib"} \subseteq BlockKeys(b)

\* section m ends with status 1: its own code succeeds, every name it looks
\* up is bound, and every component it fetches from ends with status 1
RECURSIVE Succeeds(_, _, _)
Succeeds(bs, m, depth) ==
  /\ depth > 0
  /\ OwnWorkSucceeds(bs[m])
  /\ \A k \in 1..NSlots(BlockClass(bs[m])) :
       \/ LookupSkipped(bs, m, k)
       \/ LET p == Bound(bs, Slots(BlockClass(bs[m]))[k])
          IN  p # 0 /\ Succeeds(bs, p, depth - 1)

\* the status section m ends with (a chain of fetches passes through each
\* section at most once)
ExpectedStatus(bs, m) == IF Succeeds(bs, m, Len(bs)) THEN 1 ELSE 2

\* the orders of n sections
Orders(n) == {s \in [1..n -> 1..n] : \A a, b \in 1..n : s[a] = s[b] => a = b}

Reordered(bs, s) == [m \in 1..Len(bs) |-> bs[s[m]]]

\* the component's own code met a missing file or parameter or a failing
\* external program
EnvFailure(i) ==
  \/ exc[i] \in {"IOError", "RuntimeError", "RuntimeError:rc"}
  \/ exc[i] = "KeyError" /\ Class(i) # Global

\* the component found its outputs in place and skipped its run
FoundOutputs(i) == Class(i) # Global /\ results[i]["changed"] = "0"

\* the run has ended, and it was a run in that environment
EndedInFixedEnvironment ==
  mainpc = "fin" /\ \A i \in Comps : ~EnvFailure(i) /\ ~FoundOutputs(i)

\* files of three sections, in every order: with two providers of one
\* capability, and without
OrderBlocks ==
  {<<<<Sect("Global")>>, GlobalOk, <<Sect(HistHydro)>>>>,
   <<GlobalOk, <<Sect(HistHydro)>>, <<Sect(Hydro)>>>>,
   <<<<Sect(Base)>>, <<Sect(Gcam)>>, <<Sect(Water)>>>>}

OrderConfigs == {Concat(Reordered(bs, s)) : bs \in OrderBlocks, s \in Orders(3)}

InitOrder ==
  cfgfile \in (OrderConfigs \cup Pipelines \cup Malformed \cup FilesOf(1)) /\ InitState

SpecOrder == InitOrder /\ [][Next]_vars

\* C25: when the run has ended and no component's own code met a failure of
\* its environment, every component's status and the failure count are the
\* ones every order of the file's sections gives, whatever the interleaving
\* of the threads was (the environment: all inputs there, no outputs yet).
C25_OutcomeIndependentOfOrder ==
  EndedInFixedEnvironment =>
    LET bs == Split(cfgfile)
    IN  \A s \in Orders(Len(bs)) :
          LET g == Reordered(bs, s)
          IN  /\ \A m \in 1..Len(bs) : status[s[m]] = ExpectedStatus(g, m)
              /\ fail = Cardinality({m \in 1..Len(bs) : ExpectedStatus(g, m) # 1})

\* the positions of a thread between the wrapper's "with self.condition:"
\* and the end of that block
InWrapper == {"seg", "notify", "release"} \cup FetchStates

\* C26: a component's lock is held by its own thread exactly while that
\* thread is inside the with block of the wrapper, from before run_component
\* starts until after the status is set and notify_all is issued (the
\* thread never waits on its own condition); a fetch() gets past its own
\* "with self.condition:" only while the target's thread is not inside the
\* wrapper, and it enters wait() only if the target's run_component has not
\* been called yet.
C26_LockHeldForWholeRun ==
  /\ [](\A i \in Comps :
          /\ lockOwner[i] = (IF pc[i] \in InWrapper THEN i ELSE 0)
          /\ pc[i] = "seg" => status[i] = 0
          /\ pc[i] = "release" => status[i] \in {1, 2}
          /\ pc[i] \in FetchStates => tgt[i] # i)
  /\ [][\A j \in Comps :
          /\ (pc[j] \in {"f_lock", "f_woken"} /\ pc'[j] # pc[j]) =>
                pc[tgt[j]] \notin InWrapper
          /\ (pc[j] = "f_lock" /\ pc'[j] = "f_wait") =>
                runs[tgt[j]] = 0 /\ status[tgt[j]] = 0
          /\ (pc[j] = "f_lock" /\ pc'[j] = "f_check") =>
                status[tgt[j]] \in {1, 2} /\ Terminated(tgt[j])]_vars

\* a consumer entered wait() before the producer's thread took the lock;
\* the producer is now inside run_component, holding the lock, itself
\* inside the fetch() of a third component
C26_Witness ==
  \E j, p \in Comps :
    /\ pc[j] = "f_wait" /\ tgt[j] = p
    /\ pc[p] \in FetchStates
    /\ lockOwner[p] = p
    /\ runs[p] = 1
    /\ status[p] = 0

\* C27: a component's results hold changed = 0 only if its clobber
\* parameter says False, it found all its output files in place, and it did
\* not run its external program; when it ran the program, or clobber is
\* set, or it found an output missing, changed is still 1.
C27_ChangedClearedOnlyOnCachedOutputs ==
  \A i \in Comps : "changed" \in DOMAIN results[i] =>
    /\ results[i]["changed"] \in {"0", "1"}
    /\ results[i]["changed"] = "0" =>
         /\ "clobber" \in DOMAIN params[i] /\ params[i]["clobber"] = "False"
         /\ extern[i].seen = "all"
         /\ ~extern[i].ran /\ ~extern[i].unlinked
         /\ rv[i] = IntRv(0)
    /\ (extern[i].ran \/ clobber(i) \/ extern[i].seen = "missing") =>
         results[i]["changed"] = "1"

\* one component skipped its run and published changed = 0, another one,
\* also with clobber = False, ran its program and published changed = 1
C27_Witness ==
  \E i, k \in Comps :
    /\ Class(i) \in {Gcam, Hydro, HistHydro, Water}
    /\ Class(k) \in {Gcam, Hydro, HistHydro, Water}
    /\ status[i] = 1 /\ results[i]["changed"] = "0" /\ ~clobber(i)
    /\ status[k] = 1
    /\ ~clobber(k) /\ extern[k].ran /\ results[k]["changed"] = "1"

\* run_component of component i has ended (returned or raised)
RunEnded(i) == pc[i] \in {"notify", "release", "done", "died"}

C29_HydroSucceedsOnlyWithAllOutputs ==
  \A i \in Comps : (Class(i) \in {Hydro, HistHydro} /\ RunEnded(i)) =>
    /\ status[i] = 1 =>
         \/ /\ ~extern[i].ran
            /\ extern[i].seen = "all" /\ ~clobber(i)
            /\ results[i]["changed"] = "0"
         \/ /\ extern[i].ran
            /\ extern[i].exit = 0 /\ extern[i].after = "all"
    /\ (extern[i].ran /\ extern[i].after = "missing") =>
         /\ rv[i] = IntRv(1)
         /\ status[i] = 2
         /\ exc[i] = "RuntimeError:rc"
    /\ extern[i].ran => extern[i].after \in {"all", "missing"}

\* the external program of a hydrology component exited with 0, an output
\* file was missing afterwards, and the component failed
C29_Witness ==
  \E i \in Comps :
    /\ Class(i) \in {Hydro, HistHydro}
    /\ pc[i] = "died"
    /\ extern[i].ran /\ extern[i].exit = 0 /\ extern[i].after = "missing"
    /\ status[i] = 2

\* the component bound to 'historical-hydro', 0 when there is none
HistProvider == cap_tbl["historical-hydro"]

\* component i is before the end of its first lookup (for HydroComponent:
\* before "hist_rslts = ...fetch()" has returned)
BeforeFirstFetch(i) ==
  slot[i] = 1 /\ (pc[i] = "seg" \/ pc[i] \in FetchStates)

\* C30: for a HydroComponent inside or past run_component.  With
\* 'historical-hydro' registered: until its fetch of it has returned the
\* component has written no result and run no program; once past it, its
\* first fetch was that one, hist-fout and hist-qout are the fetched foutfile
\* and qoutfile (the branch that reads chstorfile, not init-storage-file);
\* and it has status 1 only if the historical component has status 1.
\* With 'historical-hydro' not registered: it is never inside fetch() at its
\* first lookup, it never fails by that lookup, its first fetch, if any, is
\* the one of 'general', and hist-fout and hist-qout are /dev/null.
C30_HistoricalHydroIsOptional ==
  \A i \in Comps : (Class(i) = Hydro /\ runs[i] = 1) =>
    IF HistProvider # 0
    THEN /\ BeforeFirstFetch(i) =>
              /\ results[i] = InitResults(Hydro)
              /\ extern[i] = NoExtern
              /\ fetchLog[i] = <<>>
         /\ Len(fetchLog[i]) >= 1 => fetchLog[i][1].target = HistProvider
         /\ (slot[i] >= 2 /\ pc[i] = "seg") =>
              /\ fetchLog[i][1].ok
              /\ results[i]["hist-fout"] = fetchLog[i][1].res["foutfile"]
              /\ results[i]["hist-qout"] = fetchLog[i][1].res["qoutfile"]
              /\ "chstorfile" \in DOMAIN fetchLog[i][1].res
         /\ status[i] = 1 => status[HistProvider] = 1 /\ fetchLog[i][1].ok
         /\ (RunEnded(i) /\ exc[i] \notin {"KeyError"}) => Len(fetchLog[i]) >= 1
    ELSE /\ pc[i] \in FetchStates => slot[i] = 2 /\ Class(tgt[i]) = Global
         /\ exc[i] = LookupError => slot[i] = 2
         /\ \A n \in 1..Len(fetchLog[i]) : Class(fetchLog[i][n].target) = Global
         /\ (slot[i] >= 2 /\ pc[i] = "seg") =>
              /\ results[i]["hist-fout"] = "/dev/null"
              /\ results[i]["hist-qout"] = "/dev/null"

\* one HydroComponent waits for the historical component before doing
\* anything
C30_Witness ==
  \E i \in Comps :
    /\ Class(i) = Hydro
    /\ HistProvider # 0
    /\ pc[i] = "f_wait" /\ tgt[i] = HistProvider
    /\ pc[HistProvider] \in FetchStates
    /\ results[i] = InitResults(Hydro)

\* the component bound to a capability name, 0 when there is none
Provider(name) == cap_tbl[name]

\* C31: for a WaterDisaggregationComponent inside or past run_component.
\* Until its last fetch has returned it has written no result and run no
\* program.  Without the dbxml parameter its fetches are, in this order, the
\* ones of 'gcam-hydro', 'general' and 'gcam-core', and it has status 1 only
\* if all three returned and their components have status 1.  With the
\* dbxml parameter it fetches 'gcam-hydro' and 'general' only: it is never
\* inside fetch() of the GCAM component, has no completed fetch on it, and
\* status 1 requires only the two.
C31_WaterWaitsForUpstreams ==
  \A i \in Comps : (Class(i) = Water /\ runs[i] = 1) =>
    LET direct == "dbxml" \in DOMAIN params[i]
        order == IF direct THEN <<"gcam-hydro", "general">>
                 ELSE <<"gcam-hydro", "general", "gcam-core">>
    IN  /\ (slot[i] <= 3 /\ ~RunEnded(i)) =>
              results[i] = InitResults(Water) /\ extern[i] = NoExtern
        /\ Len(fetchLog[i]) <= Len(order)
        /\ \A n \in 1..Len(fetchLog[i]) : fetchLog[i][n].target = Provider(order[n])
        /\ pc[i] \in FetchStates =>
              /\ Len(fetchLog[i]) < Len(order)
              /\ tgt[i] = Provider(order[Len(fetchLog[i]) + 1])
        /\ (extern[i].ran \/ status[i] = 1 \/ results[i] # InitResults(Water)) =>
              /\ Len(fetchLog[i]) = Len(order)
              /\ \A n \in 1..Len(order) :
                   fetchLog[i][n].ok /\ status[Provider(order[n])] = 1

\* a WaterDisaggregationComponent with the dbxml parameter has status 1
\* although the registered GCAM component has status 2
C31_Witness ==
  \E i \in Comps :
    /\ Class(i) = Water
    /\ "dbxml" \in DOMAIN params[i]
    /\ status[i] = 1
    /\ extern[i].ran
    /\ Provider("gcam-core") # 0
    /\ status[Provider("gcam-core")] = 2

\* util.parseTFstring, on the values of the model's configuration files
ParsesTrue(v) == v = "True"

\* C32: a WaterDisaggregationComponent whose water-transfer parameter is
\* absent or parses to False never returns the failure code of a missing
\* transfer-file; one whose water-transfer is True and whose transfer-file
\* is missing, once its fetches have returned, does not run the
\* disaggregation and does not end with status 1.
C32_TransferFileRequiredOnlyWithTransfer ==
  \A i \in Comps : (Class(i) = Water /\ RunEnded(i)) =>
    LET wanted == /\ "water-transfer" \in DOMAIN params[i]
                  /\ ParsesTrue(params[i]["water-transfer"])
        given == "transfer-file" \in DOMAIN params[i]
    IN  /\ ~wanted => rv[i] # IntRv(5)
        /\ (wanted /\ ~given) => status[i] = 2 /\ ~extern[i].ran

\* files of at most MaxSections sections (every pair of components in both
\* orders), the rejected files, and the water pipeline with the transfer
\* parameters
FairConfigs ==
  FilesOf(MaxSections) \cup Malformed \cup
    {GlobalOk \o <<Sect(Hydro)>> \o WaterDb \o <<KV("water-transfer", "True")>>,
     <<Sect(Water)>> \o GlobalOk \o <<Sect(Hydro), Sect(Gcam)>>}

InitFair == cfgfile \in FairConfigs /\ InitState

\* the scheduler lets every thread that can take a step take one
\* eventually; every step of the program moves some thread forward
Fairness == WF_vars(Next)

SpecFair == InitFair /\ [][Next]_vars /\ Fairness

\* the positions a component can have in component_list: one per section
\* header of the file
Positions ==
  UNION {1..Cardinality({n \in 1..Len(f) : f[n].kind = "section"}) : f \in FairConfigs}

\* the program has ended: gcam_parse raised, or all threads have ended with
\* status 1 or 2, all joins have returned and the closing message is printed
ProgramEnded ==
  \/ mainpc = "aborted"
  \/ /\ mainpc = "fin"
     /\ \A i \in Comps : status[i] \in {1, 2} /\ Terminated(i) /\ lockOwner[i] = 0
     /\ message = Message(fail)

\* C33: with no circular dependency among the configured components, under
\* fair scheduling the program ends: every component reaches status 1 or 2,
\* the main thread completes its joins and prints the closing message; a
\* thread that is inside fetch() eventually leaves it.
C33_EveryRunEnds ==
  /\ <>ProgramEnded
  /\ \A j \in Positions :
       (j \in Comps /\ pc[j] \in FetchStates) ~> (j \in Comps /\ pc[j] \notin FetchStates)

\* the program has ended after a thread had gone through wait() in fetch()
\* and had been released, with one component failed and one succeeded
C33_Witness ==
  /\ mainpc = "fin"
  /\ message = "failed"
  /\ \E x \in Fetched : Entry(x).waited
  /\ \E i, k \in Comps : status[i] = 1 /\ status[k] = 2 /\ Terminated(i) /\ Terminated(k)

\* C34: every fetch() that raised was on a component whose status is 2, so
\* no fetch() on a component that ends with status 1 raises; a thread that
\* notify_all has woken, or that is past the with block of fetch(), sees a
\* status of 1 or 2, and notify_all is issued only with the status set; a
\* thread is in wait() only while the status is 0 or notify_all is about
\* to be issued.
C34_FetchRaisesOnlyOnFailed ==
  /\ \A x \in Fetched : ~Entry(x).ok =>
       /\ status[Entry(x).target] = 2
       /\ Entry(x).err = FetchExc(Entry(x).target)
  /\ \A j \in Comps :
       /\ pc[j] \in {"f_woken", "f_check"} => status[tgt[j]] \in {1, 2}
       /\ pc[j] = "f_wait" => status[tgt[j]] = 0 \/ pc[tgt[j]] = "notify"
       /\ pc[j] \in {"notify", "release"} => status[j] \in {1, 2}

\* a thread went through wait() on a component that then succeeded, and its
\* fetch() returned; another fetch() in the same run raised
C34_Witness ==
  /\ \E x \in Fetched :
       Entry(x).ok /\ Entry(x).waited /\ status[Entry(x).target] = 1
  /\ \E y \in Fetched : ~Entry(y).ok /\ Entry(y).waited

\* the dictionary a fetch() returned says its component did new work
ChangedTrue(res) == "changed" \in DOMAIN res /\ Truthy(res["changed"])

\* C35: a component whose results say changed = 0 received no dictionary
\* with a true changed entry from any fetch() of its run; a component that
\* has ended its run and received one has a true changed entry itself.
C35_CacheReuseRespectsUpstreamChanges ==
  \A i \in Comps : Class(i) # Global =>
    /\ ~Truthy(results[i]["changed"]) =>
         \A n \in 1..Len(fetchLog[i]) :
           fetchLog[i][n].ok => ~ChangedTrue(fetchLog[i][n].res)
    /\ (RunEnded(i) /\ \E n \in 1..Len(fetchLog[i]) :
          fetchLog[i][n].ok /\ ChangedTrue(fetchLog[i][n].res))
         => Truthy(results[i]["changed"])

\* the loop of __main__ that starts the threads has ended
LaunchDone == mainpc \in {"join", "report", "fin"} /\ Len(component_list) > 0

\* C36: every component bound in cap_tbl is in component_list; no component
\* is started twice, and all are started when the launch loop has ended; a
\* thread in wait() waits on a component of the list; and every component
\* of a class that registers a name is the one bound under that name.
C36_RegistryAndComponentListAgree ==
  /\ \A n \in Caps : cap_tbl[n] # 0 => cap_tbl[n] \in Comps
  /\ \A i \in Comps :
       /\ started[i] <= 1
       /\ LaunchDone => started[i] = 1
       /\ pc[i] = "f_wait" => tgt[i] \in Comps /\ (LaunchDone => started[tgt[i]] = 1)
       /\ Capability(Class(i)) \in Caps => cap_tbl[Capability(Class(i))] = i

\* gcam_parse raises on the file: it has a line that is neither a section
\* header nor key=value, or a key=value line with no section header above it
FileRejected ==
  \E n \in 1..Len(cfgfile) :
    \/ cfgfile[n].kind = "other"
    \/ cfgfile[n].kind = "keyval" /\ \A m \in 1..(n - 1) : cfgfile[m].kind # "section"

\* the parameters addparam has stored when the lines of a section are read
RECURSIVE ParamsOf(_)
ParamsOf(b) ==
  IF Len(b) <= 1 THEN EmptyMap
  ELSE Put(ParamsOf(SubSeq(b, 1, Len(b) - 1)), b[Len(b)].key, b[Len(b)].val)

\* every line of the file is read, every section has its component, each
\* component has had one call of finalize_parsing, and each component not
\* yet running has the parameters of its section
SetupComplete ==
  /\ ~FileRejected
  /\ mainpc \notin {"parse", "aborted"}
  /\ lineno > Len(cfgfile)
  /\ Len(component_list) = Len(Split(cfgfile))
  /\ \A k \in Comps :
       /\ finalized[k] = 1
       /\ pc[k] = "idle" \/ Class(k) # Global => params[k] = ParamsOf(Split(cfgfile)[k])

\* C37: on a file gcam_parse rejects no thread is ever started; a thread is
\* started only when every line is read, every component has all the
\* parameters of its section and finalize_parsing has been called once on
\* every component, which holds before the first thread is started; no
\* component has finalize_parsing called twice.
C37_SetupIsAllOrNothing ==
  /\ FileRejected => \A i \in Comps : started[i] = 0 /\ pc[i] = "idle"
  /\ mainpc = "aborted" => FileRejected
  /\ \A i \in Comps : finalized[i] <= 1
  /\ (\E i \in Comps : started[i] > 0 \/ pc[i] # "idle") => SetupComplete
  /\ mainpc = "launch" => SetupComplete

\* the first thread of a file of three sections with parameters is running
\* and the others are not started yet
C37_Witness ==
  /\ Len(component_list) >= 3
  /\ pc[1] \notin {"idle", "start"}
  /\ pc[Len(component_list)] = "idle"
  /\ \E k \in Comps : pc[k] = "idle" /\ "clobber" \in DOMAIN params[k]
  /\ \A k \in Comps : finalized[k] = 1

====
